---- MODULE Spec2Model ----
(***************************************************************************)
(* Session engine of the Splitwise Telegram bot (src/config.js).           *)
(*                                                                         *)
(* The bot keeps one in-memory map, userSessions, from chat id to a        *)
(* session object.  Handlers are async functions: each runs synchronously  *)
(* to its next await on transport, database or HTTP I/O, and the event     *)
(* loop may run any other handler, timer callback or promise continuation  *)
(* in between.  A handler that is suspended is a record of `tasks`; its    *)
(* local variables (the session reference it captured, the message it      *)
(* sent) are fields of that record.  Session objects live in `heap` and    *)
(* are referred to by index, so that a closure can still hold an object    *)
(* that has left the map.                                                  *)
(*                                                                         *)
(* Consecutive awaits between which the handler touches no shared state    *)
(* are one suspension (loadToken + fetch + json; edit + delete + send in   *)
(* the timer callback; the awaits of one deletion loop).                   *)
(*                                                                         *)
(* Every action computes the next program state as a record (St) and       *)
(* commits it; Commit drops the session objects nothing refers to any      *)
(* more, as the JS garbage collector does, and renumbers session indexes   *)
(* and message ids in order, which no handler can observe: ids are only    *)
(* ever compared for equality.                                             *)
(*                                                                         *)
(* Every inbound update is delivered to one handler: a command to its     *)
(* onText handler, any other text to the message handler.                  *)
(*                                                                         *)
(* The chat is the environment: `rendered` holds the inline keyboards that *)
(* are on display, and Telegram delivers a press only of a button on       *)
(* display.  A keyboard leaves the display when its message is deleted or  *)
(* its markup is edited away.                                              *)
(***************************************************************************)
EXTENDS Integers, Sequences, FiniteSets, TLC

\* ------------------------------------------------------------ bounds
\* inbound events (commands, texts, presses, OAuth callbacks) per behaviour
MaxEvents == 6
\* handlers and timer callbacks that start while another one is suspended
MaxOverlaps == 1

\* ------------------------------------------------------------ universe
Chats == {1}
Users == {1, 2}
\* the users who send commands: user ids are interchangeable, and a session
\* owned by the other user comes from a createExpense_ press
Callers == {1}
\* the Splitwise groups of the linked account, and the one the buttons name
Groups == {1}
GroupId == CHOOSE g \in Groups : TRUE
Members == <<101, 102, 103>>

\* msg.text of a free-text message, as its characters
Texts == { <<" ">>, <<"0">>, <<"5">> }

\* callback_data of the buttons the bot renders, by the keyboard they are on:
\* the /group list, the group detail, the /setgroup list, the split
\* question, the member selection
Payloads ==
  { [kb |-> "groups", op |-> "group", arg |-> GroupId],
    [kb |-> "detail", op |-> "createExpense", arg |-> GroupId],
    [kb |-> "setgroups", op |-> "setgroup", arg |-> GroupId],
    [kb |-> "split", op |-> "splitEquallyYes", arg |-> 0],
    [kb |-> "split", op |-> "splitEquallyNo", arg |-> 0],
    [kb |-> "members", op |-> "toggle_member", arg |-> 0],
    [kb |-> "members", op |-> "toggle_member", arg |-> 1],
    [kb |-> "members", op |-> "submit_selected_members", arg |-> 0] }

VARIABLES
  userSessions,  \* the map: a set of <<chatId, session index>> pairs
  heap,          \* the session objects something still refers to, by index
  timers,        \* pending setTimeout callbacks
  tasks,         \* suspended handlers and callbacks
  token,         \* the Token table: chatId -> row
  deleted,       \* <<chatId, messageId>> for which bot.deleteMessage was called
  nextId,        \* the message_id Telegram gives the next recorded message
  rendered,      \* the inline keyboards on display: [chat, kb, msg]
  nEvents,       \* inbound events delivered so far
  nOverlaps,     \* handlers started so far while another one was suspended
  out,           \* what the last step did to the outside, and to the map
  inbox          \* msg.text of the update awaiting delivery, when the
                 \* behaviour starts from one (AmountSpec); <<>> otherwise

vars == <<userSessions, heap, timers, tasks, token, deleted, nextId, rendered, nEvents,
          nOverlaps, out, inbox>>

\* ------------------------------------------------------------ session objects
\* A JS object with every field the code ever sets; 0 / <<>> / FALSE = undefined.
NoSession == 0

EmptyObject ==
  [ userId |-> 0, step |-> "undefined", groupId |-> 0,
    description |-> <<>>, amount |-> 0, currencyCode |-> <<>>,
    hasMessageIds |-> FALSE, messageIds |-> <<>>,
    timeout |-> 0, loginMessageId |-> 0,
    groups |-> {}, hasGroups |-> FALSE,
    hasMembers |-> FALSE, selectedMembers |-> <<>> ]

\* S[chatId] for a map S
GetIn(S, c) ==
  IF \E p \in S : p[1] = c
  THEN (CHOOSE p \in S : p[1] = c)[2]
  ELSE NoSession

\* userSessions[chatId]
Get(c) == GetIn(userSessions, c)

PutKeepingOld(S, c, sid) == S \cup {<<c, sid>>}

\* userSessions[chatId] = obj
Put(S, c, sid) == {p \in S : p[1] # c} \cup {<<c, sid>>}

RemoveAll(S, c) == {}

\* delete userSessions[chatId]
Remove(S, c) == {p \in S : p[1] # c}

Elems(s) == {s[i] : i \in 1..Len(s)}

\* ------------------------------------------------------------ program state
\* the program state as one record: map, heap, timers, tasks, Token table,
\* deletions, next message id, keyboards sent
St ==
  [us |-> userSessions, hp |-> heap, tm |-> timers, tk |-> tasks,
   tok |-> token, del |-> deleted, nid |-> nextId, rn |-> rendered]

\* bot.sendMessage: Telegram gives the message the id st.nid
Send(st) == [st EXCEPT !.nid = @ + 1]

\* bot.sendMessage with the inline keyboard kb
SendKeyboard(st, c, kb) ==
  [Send(st) EXCEPT !.rn = @ \cup {[chat |-> c, kb |-> kb, msg |-> st.nid]}]

\* the keyboard of message m of chat c is gone (edited away, or deleted
\* with its message)
Unrender(st, c, ms) == [st EXCEPT !.rn = {r \in @ : ~(r.chat = c /\ r.msg \in ms)}]

\* `new Object` on the heap: its index is Len(st.hp) + 1
Alloc(st, obj) == [st EXCEPT !.hp = Append(@, obj)]

\* session.messageIds.push(m), with `if (!session.messageIds) session.messageIds = []`
Push(st, s, m) ==
  [st EXCEPT !.hp[s].hasMessageIds = TRUE, !.hp[s].messageIds = Append(@, m)]

\* clearTimeout(handle): the timer with that handle, if still pending, is gone
clearTimeout(T, handle) == {tm \in T : tm.msg # handle}

\* `if (session.timeout) { clearTimeout(session.timeout); delete session.timeout }`
ClearSessionTimeout(st, s) ==
  [st EXCEPT !.tm = clearTimeout(@, st.hp[s].timeout), !.hp[s].timeout = 0]

\* bot.deleteMessage(chatId, id) for every id of the list, failures caught
DeleteAll(st, c, ids) ==
  [st EXCEPT !.del = @ \cup {<<c, ids[i]>> : i \in 1..Len(ids)},
             !.rn = {r \in @ : ~(r.chat = c /\ r.msg \in Elems(ids))}]

\* a suspended handler: where it resumes, and the local variables it still
\* reads (u is 0 when the rest of the handler does not read the sender);
\* id tells apart two handlers suspended at the same place with the same
\* locals
Task(pc, c, u, s, arg, msg, next) ==
  [id |-> 0, pc |-> pc, chat |-> c, user |-> u, session |-> s, arg |-> arg,
   msg |-> msg, next |-> next]

\* the suspended handlers of T that differ from t in id at most
Twins(T, t) == {x \in T : [x EXCEPT !.id = 0] = [t EXCEPT !.id = 0]}

\* the handler suspends at an await
Spawn(st, task) ==
  [st EXCEPT !.tk = @ \cup {[task EXCEPT !.id = Cardinality(Twins(st.tk, task))]}]

\* a suspended handler resumes and returns
Finish(st, t) == [st EXCEPT !.tk = @ \ {t}]

\* a suspended handler resumes and suspends again at pc; of its locals the
\* rest of any handler reads the captured session at most
Move(st, t, pc) == Spawn(Finish(st, t), Task(pc, t.chat, 0, t.session, 0, 0, ""))

\* the same, awaiting the bot.sendMessage that st.nid identifies
MoveSending(st, t, pc) ==
  Spawn(Finish(st, t), Task(pc, t.chat, 0, t.session, 0, st.nid, ""))

\* ------------------------------------------------------------ commit
\* the position of x in the finite set of numbers S (0 stays 0)
Rank(S, x) == IF x = 0 THEN 0 ELSE Cardinality({y \in S : y <= x})

\* the session objects the map, a suspended handler or a pending timer holds
LiveSessions(st) ==
  ({p[2] : p \in st.us} \cup {t.session : t \in st.tk} \cup {tm.session : tm \in st.tm})
    \ {NoSession}

\* the message ids a live object, a suspended handler, a timer or a
\* keyboard on display holds
LiveIds(st) ==
  UNION {Elems(st.hp[s].messageIds) \cup {st.hp[s].timeout, st.hp[s].loginMessageId}
           : s \in LiveSessions(st)}
    \cup {t.msg : t \in st.tk} \cup {tm.msg : tm \in st.tm} \cup {r.msg : r \in st.rn}

\* st without its unreachable objects, with indexes and ids renumbered in order
Collect(st) ==
  LET live == LiveSessions(st)
      ids == LiveIds(st) \ {0}
      sid(x) == Rank(live, x)
      mid(x) == Rank(ids, x)
      obj(o) == [o EXCEPT !.messageIds = [i \in 1..Len(@) |-> mid(@[i])],
                          !.timeout = mid(@),
                          !.loginMessageId = mid(@)]
  IN [us |-> {<<p[1], sid(p[2])>> : p \in st.us},
      hp |-> [i \in 1..Cardinality(live) |->
                obj(st.hp[CHOOSE x \in live : sid(x) = i])],
      tm |-> {[tm EXCEPT !.session = sid(@), !.msg = mid(@)] : tm \in st.tm},
      tk |-> {[t EXCEPT !.id = Cardinality({x \in Twins(st.tk, t) : x.id < t.id}),
                        !.session = sid(@), !.msg = mid(@)]
                : t \in st.tk},
      tok |-> st.tok,
      del |-> {<<d[1], mid(d[2])>> :
                 d \in {e \in st.del :
                          \/ e[2] \in ids
                          \/ \E x \in live : e[2] \in Elems(st.hp[x].messageIds)}},
      nid |-> Cardinality(ids) + 1,
      rn |-> {[r EXCEPT !.msg = mid(@)] : r \in st.rn}]

\* the outbound calls of one step: which handler returned in it (if any),
\* whether it called bot.answerCallbackQuery (alert: with the "You can't
\* interact with this button." alert), the messages it sent with
\* bot.sendMessage, the Splitwise POST it issued, and the users__i__ entries
\* of that POST's payload
OutCall(done, answered, sent, remote) ==
  [done |-> done, answered |-> answered, alert |-> FALSE, sent |-> sent,
   remote |-> remote, shares |-> <<>>]
Out(done, answered, sent) == OutCall(done, answered, sent, "")
NoOut == Out("", FALSE, <<>>)

\* the chats whose entry in the map the step to st removes or replaces
Dropped(st) == {c \in {p[1] : p \in userSessions} : GetIn(st.us, c) # Get(c)}

\* what the step to st does to the map: it removes an entry, it replaces
\* one by another object, or neither
DropKind(st) ==
  IF Dropped(st) = {} THEN "none"
  ELSE IF \E c \in Dropped(st) : GetIn(st.us, c) # NoSession THEN "replaced"
  ELSE "removed"

\* the program moves to st, having made the calls o; ev is 1 for the step
\* that takes an inbound event, overlaps is true for a step that starts a
\* handler while another one is suspended.  out also tells what the step
\* did to the map (dropped) and what it left behind of a session object it
\* took out of the map: how many of its recorded message ids were never
\* passed to deleteMessage, and whether a timer armed on it is still pending.
CommitAs(st, o, ev, overlaps) ==
  \E s0 \in {st} : \E g \in {Collect(s0)} :
  /\ userSessions' = g.us
  /\ heap' = g.hp
  /\ timers' = g.tm
  /\ tasks' = g.tk
  /\ token' = g.tok
  /\ deleted' = g.del
  /\ nextId' = g.nid
  /\ rendered' = g.rn
  /\ nEvents' = nEvents + ev
  /\ nOverlaps' = nOverlaps + (IF overlaps THEN 1 ELSE 0)
  /\ inbox' = inbox
  /\ out' = [done |-> o.done, answered |-> o.answered, alert |-> o.alert,
             sent |-> o.sent, remote |-> o.remote, shares |-> o.shares,
             dropped |-> DropKind(s0),
             unflushed |-> Cardinality(UNION {
                 {<<c, m>> : m \in {x \in Elems(s0.hp[Get(c)].messageIds) :
                                       <<c, x>> \notin s0.del}} : c \in Dropped(s0)}),
             armed |-> \E c \in Dropped(s0) : \E tm \in s0.tm :
                          tm.chat = c /\ tm.session = Get(c)]

Commit(st, o, ev) == CommitAs(st, o, ev, ev = 1 /\ tasks # {})

\* a handler may start between the steps of another one while the bound
\* leaves room for it
MayStart == tasks = {} \/ nOverlaps < MaxOverlaps

\* an inbound event is taken while the bounds leave room for it
Arrives == nEvents < MaxEvents /\ MayStart

\* ------------------------------------------------------------ cleanUpSession
\* The synchronous part of cleanUpSession(chatId): up to its first
\* `await bot.deleteMessage`, or to its end when there is nothing to delete.
cleanUpSessionSync(st, c) ==
  LET s == GetIn(st.us, c) IN
  IF s = NoSession
  THEN [st |-> st, wait |-> FALSE, session |-> s]
  ELSE LET st1 == ClearSessionTimeout(st, s) IN
       IF st.hp[s].messageIds = <<>>
       THEN [st |-> [st1 EXCEPT !.us = Remove(@, c)], wait |-> FALSE, session |-> s]
       ELSE [st |-> st1, wait |-> TRUE, session |-> s]

\* A command handler starts: `await cleanUpSession(chatId)`, then the
\* handler's first own await (pc).
Command(c, u, pc) ==
  /\ Arrives
  /\ LET r == cleanUpSessionSync(St, c) IN
     Commit(Spawn(r.st, IF r.wait
                        THEN Task("cleanUpSession", c, u, r.session, 0, 0, pc)
                        ELSE Task(pc, c, u, NoSession, 0, 0, "")),
            NoOut, 1)

\* cleanUpSession resumes: the deletion loop over session.messageIds has run
\* (a failed deletion is caught and logged), then `delete userSessions[chatId]`.
CleanUpSessionResume(t) ==
  /\ t.pc = "cleanUpSession"
  /\ LET st1 == DeleteAll(St, t.chat, heap[t.session].messageIds)
         st2 == [st1 EXCEPT !.us = Remove(@, t.chat)]
     IN IF t.next = "return"
        THEN Commit(Finish(st2, t), Out("balance", FALSE, <<>>), 0)
        ELSE Commit(Spawn(Finish(st2, t),
                          [t EXCEPT !.pc = t.next, !.session = NoSession, !.next = ""]),
                    NoOut, 0)

\* ------------------------------------------------------------ setButtonTimeout
\* setButtonTimeout(chatId, sentMessage) with sentMessage.message_id = m.
\* The timer's handle is the id of the message it was armed for.  With no
\* session in the map the function stores the handle on a new empty object
\* and then throws on `session.messageIds` (session is undefined).
setButtonTimeout(st, c, m) ==
  LET session == GetIn(st.us, c)
      st1 == IF session # NoSession THEN ClearSessionTimeout(st, session) ELSE st
      st2 == [st1 EXCEPT !.tm = @ \cup {[chat |-> c, msg |-> m, session |-> session]}]
  IN IF session = NoSession
     THEN [st |-> [Alloc(st2, [EmptyObject EXCEPT !.timeout = m])
                     EXCEPT !.us = Put(@, c, Len(st2.hp) + 1)],
           threw |-> TRUE]
     ELSE [st |-> Push([st2 EXCEPT !.hp[session].timeout = m], session, m),
           threw |-> FALSE]

\* ------------------------------------------------------------ commands
\* bot.onText(/\/login/)
Login(c, u) == Command(c, u, "login_token")

\* /login after `await Token.findOne`
LoginToken(t) ==
  /\ t.pc = "login_token"
  /\ IF token[t.chat].linked
     THEN Commit(Finish(St, t), Out("login", FALSE, <<"already_linked">>), 0)
     ELSE Commit(Send(MoveSending(St, t, "login_then")),
                 Out("login", FALSE, <<"login_link">>), 0)

\* /login: the .then of the login-link sendMessage stores a new object
LoginThen(t) ==
  /\ t.pc = "login_then"
  /\ LET st1 == Alloc(St, [EmptyObject EXCEPT !.loginMessageId = t.msg])
         st2 == [st1 EXCEPT !.us = Put(@, t.chat, Len(st1.hp))]
     IN Commit(Finish(st2, t), NoOut, 0)

\* bot.onText(/\/unlink/)
Unlink(c, u) == Command(c, u, "unlink_token")

\* /unlink after `await Token.findOne` and `await Token.destroy`
UnlinkToken(t) ==
  /\ t.pc = "unlink_token"
  /\ \/ /\ ~token[t.chat].linked
        /\ Commit(Finish(St, t), Out("unlink", FALSE, <<"no_account">>), 0)
     \/ /\ token[t.chat].linked
        /\ Commit(Finish([St EXCEPT !.tok[t.chat] = [linked |-> FALSE, defaultGroupId |-> 0]], t),
                  Out("unlink", FALSE, <<"unlinked">>), 0)
     \/ /\ token[t.chat].linked
        /\ Commit(Finish(St, t), Out("unlink", FALSE, <<"unlink_failed">>), 0)

\* `userSessions[chatId] = obj` for a new object
PutNew(st, c, obj) ==
  LET st1 == Alloc(st, obj) IN [st1 EXCEPT !.us = Put(@, c, Len(st1.hp))]

\* bot.onText(/\/group/)
Group(c, u) == Command(c, u, "group_fetch")

\* /group after `await loadToken` and the get_groups fetch
GroupFetch(t) ==
  /\ t.pc = "group_fetch"
  /\ \/ /\ ~token[t.chat].linked
        /\ Commit(Finish(St, t), Out("group", FALSE, <<"not_logged_in">>), 0)
     \/ /\ token[t.chat].linked
        /\ \E err \in {"no_groups", "fetch_failed"} :
             Commit(Finish(St, t), Out("group", FALSE, <<err>>), 0)
     \/ /\ token[t.chat].linked
        /\ Commit(SendKeyboard(MoveSending(PutNew(St, t.chat,
                                        [EmptyObject EXCEPT !.userId = t.user,
                                                            !.hasMessageIds = TRUE]),
                                        t, "group_sent"),
                                t.chat, "groups"),
                  Out("", FALSE, <<"group_list">>), 0)

\* /group after `await bot.sendMessage`: push on the map's current object
\* (a TypeError when there is none, caught), then setButtonTimeout
GroupSent(t) ==
  /\ t.pc = "group_sent"
  /\ LET s == Get(t.chat) IN
     IF s = NoSession \/ ~heap[s].hasMessageIds
     THEN Commit(Finish(St, t), Out("group", FALSE, <<"fetch_failed">>), 0)
     ELSE Commit(Finish(setButtonTimeout(Push(St, s, t.msg), t.chat, t.msg).st, t),
                 Out("group", FALSE, <<>>), 0)

\* bot.onText(/\/setgroup/)
Setgroup(c, u) == Command(c, u, "setgroup_fetch")

\* /setgroup after `await loadToken` and the get_groups fetch
SetgroupFetch(t) ==
  /\ t.pc = "setgroup_fetch"
  /\ \/ /\ ~token[t.chat].linked
        /\ Commit(Finish(St, t), Out("setgroup", FALSE, <<"not_logged_in">>), 0)
     \/ /\ token[t.chat].linked
        /\ \E err \in {"no_groups", "fetch_failed"} :
             Commit(Finish(St, t), Out("setgroup", FALSE, <<err>>), 0)
     \/ /\ token[t.chat].linked
        /\ Commit(SendKeyboard(MoveSending(PutNew(St, t.chat,
                                        [EmptyObject EXCEPT !.userId = t.user,
                                                            !.hasGroups = TRUE,
                                                            !.groups = Groups,
                                                            !.hasMessageIds = TRUE]),
                                        t, "setgroup_sent"),
                                t.chat, "setgroups"),
                  Out("", FALSE, <<"setgroup_list">>), 0)

\* /setgroup after `await bot.sendMessage`: push on the map's current object
\* (a TypeError when there is none, caught); no timer is armed
SetgroupSent(t) ==
  /\ t.pc = "setgroup_sent"
  /\ LET s == Get(t.chat) IN
     IF s = NoSession \/ ~heap[s].hasMessageIds
     THEN Commit(Finish(St, t), Out("setgroup", FALSE, <<"fetch_failed">>), 0)
     ELSE Commit(Finish(Push(St, s, t.msg), t), Out("setgroup", FALSE, <<>>), 0)

\* the object /expense and createExpense_ store
NewExpenseSession(groupId, userId) ==
  [EmptyObject EXCEPT !.step = "awaiting_description",
                      !.groupId = groupId,
                      !.userId = userId,
                      !.hasMessageIds = TRUE]

\* bot.onText(/\/expense/)
Expense(c, u) == Command(c, u, "expense_token")

\* /expense after `await Token.findOne`
ExpenseToken(t) ==
  /\ t.pc = "expense_token"
  /\ IF ~token[t.chat].linked
     THEN Commit(Finish(St, t), Out("expense", FALSE, <<"not_logged_in">>), 0)
     ELSE IF token[t.chat].defaultGroupId = 0
     THEN Commit(Finish(St, t), Out("expense", FALSE, <<"no_default_group">>), 0)
     ELSE Commit(Send(MoveSending(PutNew(St, t.chat,
                             NewExpenseSession(token[t.chat].defaultGroupId, t.user)),
                      t, "prompt_then")),
                 Out("expense", FALSE, <<"ask_description">>), 0)

\* a .then that does userSessions[chatId].messageIds.push(sentMessage.message_id):
\* a TypeError (an unhandled rejection) when the map has no object with messageIds
PushOnCurrent(t) ==
  LET s == Get(t.chat) IN
  IF s = NoSession \/ ~heap[s].hasMessageIds
  THEN Commit(Finish(St, t), NoOut, 0)
  ELSE Commit(Finish(Push(St, s, t.msg), t), NoOut, 0)

\* the .then of the description prompt, of /expense and of createExpense_
PromptThen(t) ==
  /\ t.pc = "prompt_then"
  /\ PushOnCurrent(t)

\* bot.onText(/\/balance/): past cleanUpSession it reads the token and the
\* group and sends one message; it touches no session
Balance(c, u) ==
  /\ Arrives
  /\ LET r == cleanUpSessionSync(St, c) IN
     IF r.wait
     THEN Commit(Spawn(r.st, Task("cleanUpSession", c, u, r.session, 0, 0, "return")),
                 NoOut, 1)
     ELSE Commit(r.st, Out("balance", FALSE, <<>>), 1)

\* ------------------------------------------------------------ timer callback
\* BUTTON_TIMEOUT has elapsed for a pending timer: its callback starts and
\* awaits editMessageReplyMarkup, deleteMessage and sendMessage
TimerFire(tm) ==
  /\ tm \in timers
  /\ MayStart
  /\ CommitAs(Spawn([St EXCEPT !.tm = @ \ {tm}],
                    Task("expired", tm.chat, 0, tm.session, 0, tm.msg, "")),
              NoOut, 0, tasks # {})

\* the callback after its awaits: the timed-out message was deleted unless
\* the edit threw; the expiry notice is pushed on the captured session (a
\* TypeError when the timer was armed with no session) and the map's entry
\* for the chat is deleted
ExpireFinish(t) ==
  /\ t.pc = "expired"
  /\ \E editOk \in BOOLEAN :
       LET st1 == IF editOk THEN DeleteAll(St, t.chat, <<t.msg>>) ELSE St
           st2 == IF t.session = NoSession
                  THEN st1
                  ELSE [Push(Send(st1), t.session, st1.nid) EXCEPT !.us = Remove(@, t.chat)]
       IN Commit(Finish(st2, t), Out("timeout", FALSE, <<"session_expired">>), 0)

\* ------------------------------------------------------------ callback_query
NotOwnerNever(hp, session, fromId) == FALSE

\* `session && session.userId !== fromId`
NotOwner(hp, session, fromId) ==
  session # NoSession /\ hp[session].userId # fromId

ToggleAdd(sel, memberId) == Append(sel, memberId)

\* selectedMembers after indexOf / splice / push of memberId
Toggle(sel, memberId) ==
  IF memberId \in Elems(sel)
  THEN LET i == CHOOSE k \in 1..Len(sel) :
                  sel[k] = memberId /\ \A j \in 1..(k - 1) : sel[j] # memberId
       IN SubSeq(sel, 1, i - 1) \o SubSeq(sel, i + 1, Len(sel))
  ELSE Append(sel, memberId)

\* The branch of the handler for callback data d, up to its first await or
\* its return; st is the state after the timeout was cleared, session the
\* object the handler read from the map.
Dispatch(st, c, u, d, mid, session) ==
  LET Await(pc, arg) == Commit(Spawn(st, Task(pc, c, 0, session, arg, mid, "")), NoOut, 1)
      Return(answered, sent) == Commit(st, Out("callback_query", answered, sent), 1)
  IN CASE d.op = "group" -> Await("cb_group_fetch", 0)
       [] d.op = "createExpense" ->
            Commit(Send(Spawn(PutNew(st, c, NewExpenseSession(d.arg, u)),
                              Task("prompt_then", c, 0, NoSession, 0, st.nid, ""))),
                   Out("callback_query", TRUE, <<"ask_description">>), 1)
       [] d.op = "setgroup" ->
            IF session = NoSession \/ ~st.hp[session].hasGroups
            THEN Return(FALSE, <<>>)                      \* TypeError on session.groups
            ELSE IF d.arg \notin st.hp[session].groups
            THEN Return(FALSE, <<"error_try_again">>)
            ELSE Await("cb_setgroup_save", d.arg)
       [] d.op = "splitEquallyYes" ->
            IF session = NoSession
            THEN Return(FALSE, <<>>)                      \* TypeError on destructuring
            ELSE Await("cb_yes_fetch", st.hp[session].amount)
       [] d.op = "splitEquallyNo" ->
            IF session = NoSession
            THEN Return(FALSE, <<>>)                      \* TypeError on destructuring
            ELSE Await("cb_no_fetch", st.hp[session].groupId)
       [] d.op = "toggle_member" ->
            IF session = NoSession
            THEN Return(FALSE, <<"error_try_again">>)
            ELSE IF ~st.hp[session].hasMembers
            THEN Return(FALSE, <<>>)                      \* TypeError on members[memberIdx]
            ELSE IF d.arg + 1 > Len(Members)
            THEN Return(FALSE, <<>>)
            ELSE Commit([st EXCEPT !.hp[session].selectedMembers =
                                      Toggle(@, Members[d.arg + 1])],
                        Out("callback_query", TRUE, <<>>), 1)
       [] d.op = "submit_selected_members" ->
            IF session = NoSession
            THEN Return(FALSE, <<"error_try_again">>)
            ELSE Await("cb_submit_token", st.hp[session].amount)

\* bot.on("callback_query") to its first await, for a press of button d on
\* message mid: Telegram delivers a press only of a button on display
CallbackQuery(c, u, d, mid) ==
  /\ Arrives
  /\ [chat |-> c, kb |-> d.kb, msg |-> mid] \in rendered
  /\ LET session == Get(c)
         st == IF session # NoSession THEN ClearSessionTimeout(St, session) ELSE St
     IN IF NotOwner(st.hp, session, u)
        THEN Commit(st, [Out("callback_query", TRUE, <<>>) EXCEPT !.alert = TRUE], 1)
        ELSE Dispatch(st, c, u, d, mid, session)

\* group_ after `await loadToken`, the get_group fetch and the edit that
\* clears the pressed message's buttons
CbGroupFetch(t) ==
  /\ t.pc = "cb_group_fetch"
  /\ \/ /\ ~token[t.chat].linked
        /\ Commit(Finish(St, t), Out("callback_query", FALSE, <<"not_logged_in">>), 0)
     \/ /\ token[t.chat].linked
        /\ Commit(Finish(St, t), Out("callback_query", TRUE, <<"group_details_failed">>), 0)
     \/ /\ token[t.chat].linked
        /\ t.session # NoSession
        /\ Commit(SendKeyboard(MoveSending(Push(Unrender(St, t.chat, {t.msg}),
                                             t.session, t.msg),
                                        t, "cb_group_sent"),
                                t.chat, "detail"),
                  Out("", FALSE, <<"group_detail">>), 0)

\* group_ after `await bot.sendMessage` of the group detail
CbGroupSent(t) ==
  /\ t.pc = "cb_group_sent"
  /\ LET r == setButtonTimeout(Push(St, t.session, t.msg), t.chat, t.msg)
     IN Commit(Finish(r.st, t),
               Out("callback_query", TRUE,
                   IF r.threw THEN <<"group_details_failed">> ELSE <<>>), 0)

\* The deletion loop over the captured session's messageIds followed by
\* `delete userSessions[chatId]`: with nothing to delete the handler goes
\* through to answerCallbackQuery at once, otherwise it suspends in the loop
\* at pc.  sent are the messages of the step.
Finally(st, t, pc, sent, remote) ==
  IF st.hp[t.session].messageIds = <<>>
  THEN Commit(Finish([st EXCEPT !.us = Remove(@, t.chat)], t),
              OutCall("callback_query", TRUE, sent, remote), 0)
  ELSE Commit(Move(st, t, pc), OutCall("", FALSE, sent, remote), 0)

FlushNothing(t) == Commit(Finish(St, t), Out("callback_query", TRUE, <<>>), 0)

\* the deletion loop has run: delete the entry, answer the press
Flush(t) ==
  LET st1 == DeleteAll(St, t.chat, heap[t.session].messageIds)
  IN Commit(Finish([st1 EXCEPT !.us = Remove(@, t.chat)], t),
            Out("callback_query", TRUE, <<>>), 0)

\* setgroup_ after `await Token.findOne` and `await token.save()`
CbSetgroupSave(t) ==
  /\ t.pc = "cb_setgroup_save"
  /\ \/ /\ ~token[t.chat].linked
        /\ Commit(Finish(St, t), Out("callback_query", TRUE, <<"not_logged_in">>), 0)
     \/ Commit(Finish(St, t), Out("callback_query", TRUE, <<"set_default_failed">>), 0)
     \/ /\ token[t.chat].linked
        /\ Finally([St EXCEPT !.tok[t.chat].defaultGroupId = t.arg], t,
                   "cb_setgroup_flush", <<"default_group_set">>, "")

\* setgroup_ after its deletion loop
CbSetgroupFlush(t) ==
  /\ t.pc = "cb_setgroup_flush"
  /\ Flush(t)

ThrowsNever(amount) == FALSE

\* `amount.toFixed(2)` in the POST's body: a TypeError when the record has
\* no amount (undefined, 0 here), thrown before fetch is called
Throws(amount) == amount = 0

\* what the create_expense POST can answer
Outcomes == {"expense_failed_with_reason", "expense_created", "expense_failed"}

\* splitEquallyYes after `await loadToken` and the create_expense POST:
\* amount (t.arg) was read when the press arrived; amount.toFixed throws on
\* undefined, before any POST, and the catch reports a failure
CbYesFetch(t) ==
  /\ t.pc = "cb_yes_fetch"
  /\ IF Throws(t.arg)
     THEN Finally(St, t, "cb_yes_flush", <<"expense_failed">>, "")
     ELSE \E o \in Outcomes : Finally(St, t, "cb_yes_flush", <<o>>, "split_equally")

\* splitEquallyYes after its deletion loop
CbYesFlush(t) ==
  /\ t.pc = "cb_yes_flush"
  /\ Flush(t)

\* splitEquallyNo after `await loadToken` and the get_group fetch: members
\* and an empty selection are stored on the map's current object
CbNoFetch(t) ==
  /\ t.pc = "cb_no_fetch"
  /\ \/ Commit(Finish(St, t), Out("callback_query", TRUE, <<"members_failed">>), 0)
     \/ /\ Get(t.chat) # NoSession
        /\ Commit(SendKeyboard(
                    Spawn(Finish([St EXCEPT !.hp[Get(t.chat)].hasMembers = TRUE,
                                            !.hp[Get(t.chat)].selectedMembers = <<>>], t),
                          Task("members_then", t.chat, 0, NoSession, 0, nextId, "")),
                    t.chat, "members"),
                  Out("callback_query", TRUE, <<"select_members">>), 0)

\* the .then of the member-selection message
MembersThen(t) ==
  /\ t.pc = "members_then"
  /\ PushOnCurrent(t)

Truncate2(amount, n) == {amount \div n}

\* (amount / n).toFixed(2), in cents: the cent nearest to the quotient.  A
\* quotient halfway between two cents is a double just below or just above
\* the half, so toFixed gives either neighbour.
toFixed2(amount, n) ==
  LET q == amount \div n
      r == amount % n
  IN IF 2 * r < n THEN {q} ELSE IF 2 * r > n THEN {q + 1} ELSE {q, q + 1}

\* usersPayload: users__i__user_id, users__i__paid_share and
\* users__i__owed_share for every selected member
usersPayload(selectedMembers, share) ==
  [i \in 1..Len(selectedMembers) |->
     [user_id |-> selectedMembers[i], paid_share |-> share, owed_share |-> share]]

\* submit_selected_members after `await loadToken`: the selection is checked
\* and the shares and the payload are built up to the POST
CbSubmitToken(t) ==
  /\ t.pc = "cb_submit_token"
  /\ LET o == heap[t.session] IN
     IF ~o.hasMembers
     THEN Commit(Finish(St, t), Out("callback_query", FALSE, <<"selection_error">>), 0)
     ELSE IF Len(o.selectedMembers) = 0
     THEN Commit(Finish(St, t), Out("callback_query", FALSE, <<"no_members_selected">>), 0)
     ELSE IF Throws(t.arg)
     THEN Finally(St, t, "cb_submit_flush", <<"expense_failed">>, "")
     ELSE \E share \in toFixed2(t.arg, Len(o.selectedMembers)) :
            Commit(Move(St, t, "cb_submit_fetch"),
                   [OutCall("", FALSE, <<>>, "split_selected")
                      EXCEPT !.shares = usersPayload(o.selectedMembers, share)], 0)

\* submit_selected_members after the create_expense POST
CbSubmitFetch(t) ==
  /\ t.pc = "cb_submit_fetch"
  /\ \E o \in Outcomes : Finally(St, t, "cb_submit_flush", <<o>>, "")

\* submit_selected_members after its deletion loop
CbSubmitFlush(t) ==
  /\ t.pc = "cb_submit_flush"
  /\ Flush(t)

\* ------------------------------------------------------------ free text
Digits == {"0", "1", "2", "3", "4", "5", "6", "7", "8", "9"}
Upper == {"A", "B", "C", "D", "E", "F", "G", "H", "I", "J", "K", "L", "M",
          "N", "O", "P", "Q", "R", "S", "T", "U", "V", "W", "X", "Y", "Z"}
Spaces == {" "}

DigitVal(ch) ==
  CASE ch = "0" -> 0 [] ch = "1" -> 1 [] ch = "2" -> 2 [] ch = "3" -> 3
    [] ch = "4" -> 4 [] ch = "5" -> 5 [] ch = "6" -> 6 [] ch = "7" -> 7
    [] ch = "8" -> 8 [] ch = "9" -> 9

RECURSIVE DecimalVal(_)
DecimalVal(s) ==
  IF s = <<>> THEN 0
  ELSE 10 * DecimalVal(SubSeq(s, 1, Len(s) - 1)) + DigitVal(s[Len(s)])

NoTrim(s) == s

\* String.prototype.trim
Trim(s) ==
  LET idx == {i \in 1..Len(s) : s[i] \notin Spaces} IN
  IF idx = {} THEN <<>>
  ELSE SubSeq(s, CHOOSE i \in idx : \A j \in idx : i <= j,
                 CHOOSE i \in idx : \A j \in idx : i >= j)

\* the length of the longest run of characters of C in s from position i
Run(s, i, C) ==
  CHOOSE k \in 0..Len(s) :
    /\ i + k - 1 <= Len(s)
    /\ \A j \in i..(i + k - 1) : s[j] \in C
    /\ (i + k > Len(s) \/ s[i + k] \notin C)

amountMatchAll(input) == [matched |-> TRUE, amount |-> 100, code |-> <<>>]

\* input.match(/^(\d+(\.\d{1,2})?)\s*([A-Z]{3})?$/), parseFloat of group 1
\* in cents, and group 3
amountMatch(input) ==
  LET n == Len(input)
      intLen == Run(input, 1, Digits)
      p1 == 1 + intLen
      dot == p1 <= n /\ input[p1] = "."
      fracLen == IF dot THEN Run(input, p1 + 1, Digits) ELSE 0
      p2 == IF dot THEN p1 + 1 + fracLen ELSE p1
      p3 == p2 + Run(input, p2, Spaces)
      code == SubSeq(input, p3, n)
      frac == SubSeq(input, p1 + 1, p1 + fracLen)
      matched == /\ intLen >= 1
                 /\ dot => fracLen \in {1, 2}
                 /\ \/ code = <<>>
                    \/ Len(code) = 3 /\ \A i \in 1..3 : code[i] \in Upper
  IN [matched |-> matched,
      amount |-> IF matched
                 THEN 100 * DecimalVal(SubSeq(input, 1, intLen))
                      + (IF fracLen = 1 THEN 10 * DecimalVal(frac) ELSE DecimalVal(frac))
                 ELSE 0,
      code |-> IF matched THEN code ELSE <<>>]

\* `amountMatch[3] || "SGD"`
DefaultCurrency == <<"S", "G", "D">>

AddressedAlways(hp, userSession, fromId) == userSession # NoSession

NonPositiveNever(amount) == FALSE

\* `amount <= 0` of the parsed amount, in cents
NonPositive(amount) == amount <= 0

\* `userSession && userSession.userId === msg.from.id`
Addressed(hp, userSession, fromId) ==
  userSession # NoSession /\ hp[userSession].userId = fromId

\* bot.on("message") for a text message.  The message's own id is recorded
\* first; the prompts' ids are recorded by a .then on the captured object.
Message(c, u, text) ==
  /\ Arrives
  /\ LET userSession == Get(c) IN
     IF ~Addressed(heap, userSession, u)
     THEN Commit(St, Out("message", FALSE, <<>>), 1)
     ELSE LET st == Push(Send(St), userSession, nextId)
              Reply(sent) == Commit(st, Out("message", FALSE, sent), 1)
              Prompt(st1, pc, sent) ==
                Commit(Spawn(st1, Task(pc, c, 0, userSession, 0, st.nid, "")),
                       Out("message", FALSE, sent), 1)
              m == amountMatch(Trim(text))
          IN CASE heap[userSession].step = "awaiting_description" ->
                    IF Trim(text) = <<>>
                    THEN Reply(<<"invalid_description">>)
                    ELSE Prompt([Send(st) EXCEPT !.hp[userSession].description = Trim(text),
                                                 !.hp[userSession].step = "awaiting_amount"],
                                "ask_amount_then", <<"ask_amount">>)
               [] heap[userSession].step = "awaiting_amount" ->
                    IF ~m.matched
                    THEN Reply(<<"invalid_amount">>)
                    ELSE IF NonPositive(m.amount)
                    THEN Reply(<<"non_positive_amount">>)
                    ELSE Prompt([SendKeyboard(st, c, "split")
                                   EXCEPT !.hp[userSession].amount = m.amount,
                                           !.hp[userSession].currencyCode =
                                              IF m.code = <<>> THEN DefaultCurrency ELSE m.code,
                                           !.hp[userSession].step = "splitEqually"],
                                "ask_split_then", <<"split_equally">>)
               [] OTHER -> Reply(<<>>)

\* a .then that does userSession.messageIds.push(sentMessage.message_id) on
\* the object the message handler captured
PromptSent(t) == Commit(Finish(Push(St, t.session, t.msg), t), NoOut, 0)

\* the .then of the amount prompt
AskAmountThen(t) ==
  /\ t.pc = "ask_amount_then"
  /\ PromptSent(t)

\* the .then of the "Split equally?" message
AskSplitThen(t) ==
  /\ t.pc = "ask_split_then"
  /\ PromptSent(t)

\* ------------------------------------------------------------ OAuth callback
\* app.get("/oauth/callback") to its first await
OAuthCallback(c) ==
  /\ Arrives
  /\ Commit(Spawn(St, Task("oauth_save", c, 0, NoSession, 0, 0, "")), NoOut, 1)

\* the callback after Token.findOne, the code exchange and saveToken: the
\* login message of the map's current object is deleted
OAuthSave(t) ==
  /\ t.pc = "oauth_save"
  /\ \/ /\ token[t.chat].linked
        /\ Commit(Finish(St, t), Out("oauth", FALSE, <<>>), 0)
     \/ /\ ~token[t.chat].linked
        /\ Commit(Finish(St, t), Out("oauth", FALSE, <<>>), 0)
     \/ /\ ~token[t.chat].linked
        /\ LET session == Get(t.chat)
               st1 == [St EXCEPT !.tok[t.chat] = [linked |-> TRUE, defaultGroupId |-> 0]]
               st2 == IF session # NoSession /\ heap[session].loginMessageId # 0
                      THEN DeleteAll(st1, t.chat, <<heap[session].loginMessageId>>)
                      ELSE st1
           IN Commit(Finish(st2, t), Out("oauth", FALSE, <<"logged_in">>), 0)

\* ------------------------------------------------------------ specification
\* The process has just started: no session, no timer, nothing in flight.
\* The Token table is a database that outlives the process.
Init ==
  /\ userSessions = {}
  /\ heap = <<>>
  /\ timers = {}
  /\ tasks = {}
  /\ token \in [Chats -> {[linked |-> FALSE, defaultGroupId |-> 0],
                          [linked |-> TRUE, defaultGroupId |-> 0],
                          [linked |-> TRUE, defaultGroupId |-> GroupId]}]
  /\ deleted = {}
  /\ nextId = 1
  /\ rendered = {}
  /\ nEvents = 0
  /\ nOverlaps = 0
  /\ out = [done |-> "", answered |-> FALSE, alert |-> FALSE, sent |-> <<>>,
            remote |-> "", shares |-> <<>>,
            dropped |-> "none", unflushed |-> 0, armed |-> FALSE]
  /\ inbox = <<>>

Next ==
  \/ \E c \in Chats, u \in Callers : Login(c, u)
  \/ \E c \in Chats, u \in Callers : Unlink(c, u)
  \/ \E c \in Chats, u \in Callers : Group(c, u)
  \/ \E c \in Chats, u \in Callers : Setgroup(c, u)
  \/ \E c \in Chats, u \in Callers : Expense(c, u)
  \/ \E c \in Chats, u \in Callers : Balance(c, u)
  \/ \E c \in Chats, u \in Users, d \in Payloads :
       \E r \in rendered : CallbackQuery(c, u, d, r.msg)
  \/ \E c \in Chats, u \in Users, text \in Texts : Message(c, u, text)
  \/ \E c \in Chats : OAuthCallback(c)
  \/ \E tm \in timers : TimerFire(tm)
  \/ \E t \in tasks : CleanUpSessionResume(t)
  \/ \E t \in tasks : LoginToken(t)
  \/ \E t \in tasks : LoginThen(t)
  \/ \E t \in tasks : UnlinkToken(t)
  \/ \E t \in tasks : GroupFetch(t)
  \/ \E t \in tasks : GroupSent(t)
  \/ \E t \in tasks : SetgroupFetch(t)
  \/ \E t \in tasks : SetgroupSent(t)
  \/ \E t \in tasks : ExpenseToken(t)
  \/ \E t \in tasks : PromptThen(t)
  \/ \E t \in tasks : ExpireFinish(t)
  \/ \E t \in tasks : CbGroupFetch(t)
  \/ \E t \in tasks : CbGroupSent(t)
  \/ \E t \in tasks : CbSetgroupSave(t)
  \/ \E t \in tasks : CbSetgroupFlush(t)
  \/ \E t \in tasks : CbYesFetch(t)
  \/ \E t \in tasks : CbYesFlush(t)
  \/ \E t \in tasks : CbNoFetch(t)
  \/ \E t \in tasks : MembersThen(t)
  \/ \E t \in tasks : CbSubmitToken(t)
  \/ \E t \in tasks : CbSubmitFetch(t)
  \/ \E t \in tasks : CbSubmitFlush(t)
  \/ \E t \in tasks : AskAmountThen(t)
  \/ \E t \in tasks : AskSplitThen(t)
  \/ \E t \in tasks : OAuthSave(t)

Spec == Init /\ [][Next]_vars

\* The event loop runs every continuation whose await has settled and every
\* timer whose delay has elapsed; nothing obliges a user to send anything.
Resume ==
  \E t \in tasks :
    \/ CleanUpSessionResume(t) \/ LoginToken(t) \/ LoginThen(t) \/ UnlinkToken(t)
    \/ GroupFetch(t) \/ GroupSent(t) \/ SetgroupFetch(t) \/ SetgroupSent(t)
    \/ ExpenseToken(t) \/ PromptThen(t) \/ ExpireFinish(t)
    \/ CbGroupFetch(t) \/ CbGroupSent(t) \/ CbSetgroupSave(t) \/ CbSetgroupFlush(t)
    \/ CbYesFetch(t) \/ CbYesFlush(t) \/ CbNoFetch(t) \/ MembersThen(t)
    \/ CbSubmitToken(t) \/ CbSubmitFetch(t) \/ CbSubmitFlush(t)
    \/ AskAmountThen(t) \/ AskSplitThen(t) \/ OAuthSave(t)

Fire == \E tm \in timers : TimerFire(tm)

FairSpec == Init /\ [][Next]_vars /\ WF_vars(Resume) /\ WF_vars(Fire)

\* ------------------------------------------------------------ the amount step
\* The texts the amount step is applied to: padding, a sign, a body of
\* digits and dots, a gap, a code, and the padding again.
MaxBodyLen == 5
BodyChars == {"0", "1", "5", "."}
Signs == {<<>>, <<"-">>}
Bodies == UNION {[1..n -> BodyChars] : n \in 0..MaxBodyLen}
Gaps == {<<>>, <<" ">>}
Codes == {<<>>, <<"U", "S", "D">>, <<"u", "s", "d">>, <<"U", "S">>, <<"a", "b", "c">>}
Pads == {<<>>, <<" ">>}
AmountTexts ==
  {pad \o sign \o body \o gap \o code \o pad :
     pad \in Pads, sign \in Signs, body \in Bodies, gap \in Gaps, code \in Codes}

\* The state after /expense and a description, when the Token row has a
\* default group: the record awaits the amount, the description prompt, the
\* user's description and the amount prompt are recorded; a text is about
\* to be delivered.
AmountInit ==
  /\ userSessions = {<<1, 1>>}
  /\ heap = << [NewExpenseSession(GroupId, 1)
                 EXCEPT !.step = "awaiting_amount",
                        !.description = <<"5">>,
                        !.messageIds = <<1, 2, 3>>] >>
  /\ timers = {}
  /\ tasks = {}
  /\ token = [c \in Chats |-> [linked |-> TRUE, defaultGroupId |-> GroupId]]
  /\ deleted = {}
  /\ nextId = 4
  /\ rendered = {}
  /\ nEvents = 0
  /\ nOverlaps = 0
  /\ out = [done |-> "", answered |-> FALSE, alert |-> FALSE, sent |-> <<>>,
            remote |-> "", shares |-> <<>>,
            dropped |-> "none", unflushed |-> 0, armed |-> FALSE]
  /\ inbox \in AmountTexts

\* the text is delivered to the message handler
AmountText ==
  /\ nEvents = 0
  /\ Message(1, 1, inbox)

AmountNext ==
  \/ AmountText
  \/ \E t \in tasks : AskSplitThen(t)

AmountSpec == AmountInit /\ [][AmountNext]_vars

\* ------------------------------------------------------------ member selection
\* The amounts, in cents, the selection is made for.
MaxAmount == 12
Amounts == 1..MaxAmount \cup {3000}

\* the buttons of the member-selection keyboard
SelectPayloads ==
  {[kb |-> "members", op |-> "toggle_member", arg |-> i] : i \in 0..(Len(Members) - 1)}
    \cup {[kb |-> "members", op |-> "submit_selected_members", arg |-> 0]}

\* The state after /expense, a description, an amount and "No" to the split
\* question: members are stored, nobody is selected, the prompts, the
\* user's texts and both keyboards are recorded and on display.
SelectInit ==
  /\ userSessions = {<<1, 1>>}
  /\ \E a \in Amounts :
        heap = << [NewExpenseSession(GroupId, 1)
                     EXCEPT !.step = "splitEqually",
                            !.description = <<"5">>,
                            !.amount = a,
                            !.currencyCode = DefaultCurrency,
                            !.hasMembers = TRUE,
                            !.messageIds = <<1, 2, 3, 4, 5, 6>>] >>
  /\ timers = {}
  /\ tasks = {}
  /\ token = [c \in Chats |-> [linked |-> TRUE, defaultGroupId |-> GroupId]]
  /\ deleted = {}
  /\ nextId = 7
  /\ rendered = {[chat |-> 1, kb |-> "split", msg |-> 5],
                 [chat |-> 1, kb |-> "members", msg |-> 6]}
  /\ nEvents = 0
  /\ nOverlaps = 0
  /\ out = [done |-> "", answered |-> FALSE, alert |-> FALSE, sent |-> <<>>,
            remote |-> "", shares |-> <<>>,
            dropped |-> "none", unflushed |-> 0, armed |-> FALSE]
  /\ inbox = <<>>

SelectNext ==
  \/ \E d \in SelectPayloads : \E r \in rendered : CallbackQuery(1, 1, d, r.msg)
  \/ \E t \in tasks : CbSubmitToken(t)
  \/ \E t \in tasks : CbSubmitFetch(t)
  \/ \E t \in tasks : CbSubmitFlush(t)

SelectSpec == SelectInit /\ [][SelectNext]_vars

\* ------------------------------------------------------------ two conversations
\* Two chats; the inbound events of a behaviour that starts in the middle
\* of their flows.
IsoChats == {1, 2}
IsoMaxEvents == 2

\* The rows of the Token table
Rows == {[linked |-> FALSE, defaultGroupId |-> 0],
         [linked |-> TRUE, defaultGroupId |-> 0],
         [linked |-> TRUE, defaultGroupId |-> GroupId]}

\* Chat 2 has sent /group: its record holds the list (recorded by the
\* handler and by setButtonTimeout) and the timeout armed on it.  Chat 1 has
\* the record a (none when a is EmptyObject) and the keyboards kbs, and has
\* received n messages so far.
IsoState(a, kbs, n, row) ==
  LET b == [EmptyObject EXCEPT !.userId = 1, !.hasMessageIds = TRUE,
                               !.messageIds = <<n + 1, n + 1>>, !.timeout = n + 1]
      sb == IF a = EmptyObject THEN 1 ELSE 2
  IN /\ heap = IF a = EmptyObject THEN <<b>> ELSE <<a, b>>
     /\ userSessions = IF a = EmptyObject THEN {<<2, 1>>} ELSE {<<1, 1>>, <<2, 2>>}
     /\ timers = {[chat |-> 2, msg |-> n + 1, session |-> sb]}
     /\ tasks = {}
     /\ token = [c \in IsoChats |-> IF c = 1 THEN row
                                    ELSE [linked |-> TRUE, defaultGroupId |-> 0]]
     /\ deleted = {}
     /\ nextId = n + 2
     /\ rendered = kbs \cup {[chat |-> 2, kb |-> "groups", msg |-> n + 1]}
     /\ nEvents = 0
     /\ nOverlaps = 0
     /\ out = [done |-> "", answered |-> FALSE, alert |-> FALSE, sent |-> <<>>,
               remote |-> "", shares |-> <<>>,
               dropped |-> "none", unflushed |-> 0, armed |-> FALSE]
     /\ inbox = <<>>

\* Chat 1 has no record, or awaits an amount, or is selecting members.
IsoInit ==
  \/ \E row \in Rows : IsoState(EmptyObject, {}, 0, row)
  \/ IsoState([NewExpenseSession(GroupId, 1)
                 EXCEPT !.step = "awaiting_amount",
                        !.description = <<"5">>,
                        !.messageIds = <<1, 2, 3>>],
              {}, 3, [linked |-> TRUE, defaultGroupId |-> GroupId])
  \/ IsoState([NewExpenseSession(GroupId, 1)
                 EXCEPT !.step = "splitEqually",
                        !.description = <<"5">>,
                        !.amount = 500,
                        !.currencyCode = DefaultCurrency,
                        !.hasMembers = TRUE,
                        !.messageIds = <<1, 2, 3, 4, 5, 6>>],
              {[chat |-> 1, kb |-> "split", msg |-> 5],
               [chat |-> 1, kb |-> "members", msg |-> 6]},
              6, [linked |-> TRUE, defaultGroupId |-> GroupId])

\* the events chat c can receive
Event(c) ==
  \/ \E u \in Callers : Login(c, u)
  \/ \E u \in Callers : Unlink(c, u)
  \/ \E u \in Callers : Group(c, u)
  \/ \E u \in Callers : Setgroup(c, u)
  \/ \E u \in Callers : Expense(c, u)
  \/ \E u \in Callers : Balance(c, u)
  \/ \E u \in Users, d \in Payloads : \E r \in rendered : CallbackQuery(c, u, d, r.msg)
  \/ \E u \in Users, text \in Texts : Message(c, u, text)
  \/ OAuthCallback(c)

\* a handler or timer callback resumes
Resumes(t) ==
  \/ CleanUpSessionResume(t) \/ LoginToken(t) \/ LoginThen(t) \/ UnlinkToken(t)
  \/ GroupFetch(t) \/ GroupSent(t) \/ SetgroupFetch(t) \/ SetgroupSent(t)
  \/ ExpenseToken(t) \/ PromptThen(t) \/ ExpireFinish(t)
  \/ CbGroupFetch(t) \/ CbGroupSent(t) \/ CbSetgroupSave(t) \/ CbSetgroupFlush(t)
  \/ CbYesFetch(t) \/ CbYesFlush(t) \/ CbNoFetch(t) \/ MembersThen(t)
  \/ CbSubmitToken(t) \/ CbSubmitFetch(t) \/ CbSubmitFlush(t)
  \/ AskAmountThen(t) \/ AskSplitThen(t) \/ OAuthSave(t)

IsoNext ==
  \/ nEvents < IsoMaxEvents /\ \E c \in IsoChats, u \in Callers : Login(c, u)
  \/ nEvents < IsoMaxEvents /\ \E c \in IsoChats, u \in Callers : Unlink(c, u)
  \/ nEvents < IsoMaxEvents /\ \E c \in IsoChats, u \in Callers : Group(c, u)
  \/ nEvents < IsoMaxEvents /\ \E c \in IsoChats, u \in Callers : Setgroup(c, u)
  \/ nEvents < IsoMaxEvents /\ \E c \in IsoChats, u \in Callers : Expense(c, u)
  \/ nEvents < IsoMaxEvents /\ \E c \in IsoChats, u \in Callers : Balance(c, u)
  \/ nEvents < IsoMaxEvents /\ \E c \in IsoChats, u \in Users, d \in Payloads :
       \E r \in rendered : CallbackQuery(c, u, d, r.msg)
  \/ nEvents < IsoMaxEvents /\ \E c \in IsoChats, u \in Users, text \in Texts : Message(c, u, text)
  \/ nEvents < IsoMaxEvents /\ \E c \in IsoChats : OAuthCallback(c)
  \/ \E tm \in timers : TimerFire(tm)
  \/ \E t \in tasks : CleanUpSessionResume(t)
  \/ \E t \in tasks : LoginToken(t)
  \/ \E t \in tasks : LoginThen(t)
  \/ \E t \in tasks : UnlinkToken(t)
  \/ \E t \in tasks : GroupFetch(t)
  \/ \E t \in tasks : GroupSent(t)
  \/ \E t \in tasks : SetgroupFetch(t)
  \/ \E t \in tasks : SetgroupSent(t)
  \/ \E t \in tasks : ExpenseToken(t)
  \/ \E t \in tasks : PromptThen(t)
  \/ \E t \in tasks : ExpireFinish(t)
  \/ \E t \in tasks : CbGroupFetch(t)
  \/ \E t \in tasks : CbGroupSent(t)
  \/ \E t \in tasks : CbSetgroupSave(t)
  \/ \E t \in tasks : CbSetgroupFlush(t)
  \/ \E t \in tasks : CbYesFetch(t)
  \/ \E t \in tasks : CbYesFlush(t)
  \/ \E t \in tasks : CbNoFetch(t)
  \/ \E t \in tasks : MembersThen(t)
  \/ \E t \in tasks : CbSubmitToken(t)
  \/ \E t \in tasks : CbSubmitFetch(t)
  \/ \E t \in tasks : CbSubmitFlush(t)
  \/ \E t \in tasks : AskAmountThen(t)
  \/ \E t \in tasks : AskSplitThen(t)
  \/ \E t \in tasks : OAuthSave(t)

IsoSpec == IsoInit /\ [][IsoNext]_vars

\* ------------------------------------------------------------ deletion loop
\* `for (const messageId of messageIds) { try { await bot.deleteMessage(...) }
\* catch (err) { log.error(...) } }` followed by `delete userSessions[chatId]`,
\* one await at a time: the loop of cleanUpSession and of the handlers that
\* end a session.
MaxFlushLen == 3

Uncaught(i, ok) == IF ok THEN i + 1 ELSE 0

\* the index the loop goes on with after the await of deleteMessage number i
\* has settled (ok: fulfilled): the catch is inside the loop body, so the
\* next one; 0 would be the rejection leaving the function
Caught(i, ok) == i + 1

\* the lists of the message ids 1..k, k <= MaxFlushLen, in any order and
\* with repetitions (/group records its list twice)
Recorded ==
  {ids \in UNION {[1..n -> 1..MaxFlushLen] : n \in 1..MaxFlushLen} :
     Elems(ids) = 1..Cardinality(Elems(ids))}

\* cleanUpSession has cleared the timeout of the record of chat 1 and awaits
\* the first deleteMessage; some of the recorded messages carry a keyboard
FlushInit ==
  \E ids \in Recorded : \E K \in SUBSET Elems(ids) :
    /\ userSessions = {<<1, 1>>}
    /\ heap = <<[EmptyObject EXCEPT !.userId = 1, !.hasMessageIds = TRUE,
                                    !.messageIds = ids]>>
    /\ timers = {}
    /\ tasks = {Task("delete_loop", 1, 0, 1, 1, 0, "")}
    /\ token = [c \in Chats |-> [linked |-> TRUE, defaultGroupId |-> 0]]
    /\ deleted = {<<1, ids[1]>>}
    /\ nextId = Cardinality(Elems(ids)) + 1
    /\ rendered = {[chat |-> 1, kb |-> "groups", msg |-> m] : m \in K}
    /\ nEvents = 0
    /\ nOverlaps = 0
    /\ out = [done |-> "", answered |-> FALSE, alert |-> FALSE, sent |-> <<>>,
              remote |-> "", shares |-> <<>>,
              dropped |-> "none", unflushed |-> 0, armed |-> FALSE]
    /\ inbox = <<>>

\* the await of deleteMessage number t.arg settles: a deleted message takes
\* its keyboard with it, a rejection is caught and logged; then the next
\* deleteMessage is called, or past the end of the list (as it is by then)
\* the entry is deleted
DeleteNext(t) ==
  /\ t.pc = "delete_loop"
  /\ \E ok \in BOOLEAN :
       LET ids == heap[t.session].messageIds
           st1 == IF ok THEN Unrender(St, t.chat, {ids[t.arg]}) ELSE St
           i == Caught(t.arg, ok)
       IN IF i = 0
          THEN Commit(Finish(st1, t), Out("cleanUpSession", FALSE, <<>>), 0)
          ELSE IF i > Len(ids)
          THEN Commit(Finish([st1 EXCEPT !.us = Remove(@, t.chat)], t),
                      Out("cleanUpSession", FALSE, <<>>), 0)
          ELSE Commit(Spawn(Finish([st1 EXCEPT !.del = @ \cup {<<t.chat, ids[i]>>}], t),
                            [t EXCEPT !.arg = i]),
                      NoOut, 0)

\* the owner writes while the loop is suspended
FlushNext ==
  \/ \E t \in tasks : DeleteNext(t)
  \/ \E text \in Texts : Message(1, 1, text)

FlushSpec == FlushInit /\ [][FlushNext]_vars

\* ------------------------------------------------------------ properties
\* C1: after any sequence of commands, texts, presses and timer firings the
\* session store holds at most one record per conversation.
OneRecordPerConversation ==
  \A c \in Chats : Cardinality({p \in userSessions : p[1] = c}) <= 1

\* a record has just been put over the record the conversation had
RecordReplaced ==
  /\ out.dropped = "replaced"
  /\ \E c \in Chats : Cardinality({p \in userSessions : p[1] = c}) = 1

\* C2: at the moment a conversation's record is removed from the store, a
\* deletion has been attempted for every message id recorded on it, the
\* expiry notice included.
FlushedWhenRemoved == out.dropped = "removed" => out.unflushed = 0

\* C3: when a flow-opening event puts a new record while the conversation
\* has one, the old record's deadline has been cancelled and a deletion has
\* been attempted for each of its recorded artifacts.
CleanedUpWhenReplaced ==
  out.dropped = "replaced" => (out.unflushed = 0 /\ ~out.armed)

\* the fields of a record that hold its step, its context and its artifacts
Content(o) ==
  [step |-> o.step, groupId |-> o.groupId, description |-> o.description,
   amount |-> o.amount, currencyCode |-> o.currencyCode,
   hasMembers |-> o.hasMembers, selectedMembers |-> o.selectedMembers,
   hasMessageIds |-> o.hasMessageIds, messageIds |-> o.messageIds]

\* user u presses button d on message mid while the conversation's record
\* belongs to somebody else
ForeignPress(c, u, d, mid) ==
  /\ Get(c) # NoSession
  /\ heap[Get(c)].userId # u
  /\ nEvents' = nEvents + 1
  /\ CallbackQuery(c, u, d, mid)

\* C4: a button press by somebody who is not the owner of the conversation's
\* record leaves the record's step, context and artifacts list unchanged,
\* whatever the payload.
ForeignPressKeepsRecord ==
  [][\A c \in Chats, u \in Users, d \in Payloads : \A r \in rendered :
       ForeignPress(c, u, d, r.msg) =>
         /\ GetIn(userSessions', c) # NoSession
         /\ Content(heap'[GetIn(userSessions', c)]) = Content(heap[Get(c)])]_vars

\* a press has just been rejected with the alert while the conversation has
\* a record with recorded artifacts
ForeignPressRejected ==
  out.alert /\ \E c \in Chats : Get(c) # NoSession /\ heap[Get(c)].messageIds # <<>>

\* a timer armed for the conversation's current record is pending
Pending(T, S, c) == \E tm \in T : tm.chat = c /\ tm.session = GetIn(S, c)

\* C5: a button press by somebody who is not the owner does not cancel the
\* record's deadline: a deadline pending before the press is pending after it.
ForeignPressKeepsDeadline ==
  [][\A c \in Chats, u \in Users, d \in Payloads : \A r \in rendered :
       (ForeignPress(c, u, d, r.msg) /\ Pending(timers, userSessions, c))
         => Pending(timers', userSessions', c)]_vars

\* C6: the callback of a timer whose record has left the store neither
\* removes the record the conversation has by then nor records anything on it.
StaleTimeoutIsNoOp ==
  [][\A t \in tasks :
       (ExpireFinish(t) /\ Get(t.chat) # NoSession /\ t.session # Get(t.chat))
         => /\ GetIn(userSessions', t.chat) # NoSession
            /\ Len(heap'[GetIn(userSessions', t.chat)].messageIds)
                 = Len(heap[Get(t.chat)].messageIds)]_vars

\* C7: at any instant at most one timeout is pending per conversation.
OnePendingTimeout ==
  \A c \in Chats : Cardinality({tm \in timers : tm.chat = c}) <= 1

\* the conversation's record has recorded a keyboard that is on display, and
\* no handler or callback of the conversation is under way
WaitingForButton(c) ==
  /\ Get(c) # NoSession
  /\ \E r \in rendered : r.chat = c /\ r.msg \in Elems(heap[Get(c)].messageIds)
  /\ \A t \in tasks : t.chat # c

\* C8: a record that is waiting for a button press has an armed deadline.
WaitingIsArmed ==
  \A c \in Chats : WaitingForButton(c) => Pending(timers, userSessions, c)

\* C9: a record left waiting for a button press does not wait for ever: with
\* no further event the deadline fires and the record is removed.
WaitingEnds ==
  \A c \in Chats : WaitingForButton(c) ~> ~WaitingForButton(c)

\* C10: every button press is acknowledged with answerCallbackQuery by the
\* time its handler returns.
PressAnswered == out.done = "callback_query" => out.answered

\* a text message of user u arrives in chat c, which has a session
TextArrives(c, u, text) ==
  /\ Get(c) # NoSession
  /\ nEvents' = nEvents + 1
  /\ Message(c, u, text)

\* C11: a free-text message from a user who is not the owner of the chat's
\* session leaves the session object as it was (every field, the timeout
\* handle included), leaves its timer pending, and sends no message.
ForeignTextIgnored ==
  [][\A c \in Chats, u \in Users, text \in Texts :
       (TextArrives(c, u, text) /\ heap[Get(c)].userId # u)
         => /\ GetIn(userSessions', c) # NoSession
            /\ heap'[GetIn(userSessions', c)] = heap[Get(c)]
            /\ Pending(timers, userSessions, c) => Pending(timers', userSessions', c)
            /\ out'.sent = <<>>]_vars

\* a text was handled without any reply while the session awaits a
\* description: the owner's text always gets a reply in that step, so the
\* sender was somebody else
ForeignTextHandled ==
  /\ out.done = "message"
  /\ out.sent = <<>>
  /\ \E c \in Chats : Get(c) # NoSession /\ heap[Get(c)].step = "awaiting_description"

\* the steps in which the handler reads the text
TextSteps == {"awaiting_description", "awaiting_amount"}

\* C12: a free-text message from the owner while the session's step expects
\* no free text leaves the record, its artifacts list included, unchanged.
OwnerTextOutOfTurnIgnored ==
  [][\A c \in Chats, u \in Users, text \in Texts :
       (/\ TextArrives(c, u, text)
        /\ heap[Get(c)].userId = u
        /\ heap[Get(c)].step \notin TextSteps)
         => /\ GetIn(userSessions', c) # NoSession
            /\ Content(heap'[GetIn(userSessions', c)]) = Content(heap[Get(c)])]_vars

\* ---- the amount grammar, as the specification words it
\* s without its leading and trailing spaces
Stripped(s) ==
  LET keep == {i \in 1..Len(s) : s[i] # " "}
      lo == CHOOSE i \in keep : \A j \in keep : i <= j
      hi == CHOOSE i \in keep : \A j \in keep : i >= j
  IN IF keep = {} THEN <<>> ELSE [k \in 1..(hi - lo + 1) |-> s[lo + k - 1]]

Lower == {"a", "b", "c", "d", "s", "u"}

\* the text up to its first space or letter: the number
NumPart(s) ==
  LET stops == {i \in 1..Len(s) : s[i] \in {" "} \cup Upper \cup Lower}
      end == IF stops = {} THEN Len(s) + 1 ELSE CHOOSE i \in stops : \A j \in stops : i <= j
  IN [k \in 1..(end - 1) |-> s[k]]

\* the text after the number and the spaces that follow it: the code
CodePart(s) ==
  LET rest == {i \in (Len(NumPart(s)) + 1)..Len(s) : s[i] # " "}
      from == IF rest = {} THEN Len(s) + 1 ELSE CHOOSE i \in rest : \A j \in rest : i <= j
  IN [k \in 1..(Len(s) - from + 1) |-> s[from + k - 1]]

\* nothing, or three letters of the set
IsCode(code, letters) ==
  code = <<>> \/ (Len(code) = 3 /\ \A i \in 1..3 : code[i] \in letters)

\* digits, or digits, a dot and between one and maxFrac digits
IsDecimal(num, maxFrac) ==
  LET dots == {i \in 1..Len(num) : num[i] = "."} IN
  /\ Len(num) >= 1
  /\ \A i \in 1..Len(num) : num[i] \in Digits \cup {"."}
  /\ \/ dots = {}
     \/ \E d \in dots : dots = {d} /\ d > 1 /\ (Len(num) - d) \in 1..maxFrac

IsPositive(num) == \E i \in 1..Len(num) : num[i] \in Digits \ {"0"}

\* the value of a decimal with at most two fraction digits, in cents
Cents(num) ==
  LET dots == {i \in 1..Len(num) : num[i] = "."}
      d == IF dots = {} THEN Len(num) + 1 ELSE CHOOSE x \in dots : TRUE
      frac == SubSeq(num, d + 1, Len(num))
  IN 100 * DecimalVal(SubSeq(num, 1, d - 1))
     + (IF Len(frac) = 1 THEN 10 * DecimalVal(frac) ELSE DecimalVal(frac))

\* the session of chat 1 after the text was handled
Handled == heap[Get(1)]
Accepted ==
  Handled.step = "splitEqually" /\ Handled.amount > 0 /\ Handled.currencyCode # <<>>
Rejected ==
  Handled.step = "awaiting_amount" /\ Handled.amount = 0 /\ Handled.currencyCode = <<>>

\* C13 as stated: the amount is accepted exactly when it is a positive
\* number (a decimal numeral with any number of fraction digits)
\* optionally followed by a code of three upper-case letters, and rejected
\* otherwise.
AnyPositiveNumberAccepted ==
  (out.done = "message" /\ Get(1) # NoSession) =>
     IF /\ IsDecimal(NumPart(Stripped(inbox)), MaxBodyLen)
        /\ IsPositive(NumPart(Stripped(inbox)))
        /\ IsCode(CodePart(Stripped(inbox)), Upper)
     THEN Accepted
     ELSE Rejected

\* C13, amended: the amount is accepted exactly when it is a positive
\* decimal with at most two fraction digits optionally followed, after any
\* spaces, by three upper-case letters; the session then stores that amount
\* and the code, or the fallback code when none was given; any other text
\* leaves step, amount and currency as they were.
TwoDecimalAmountAccepted ==
  (out.done = "message" /\ Get(1) # NoSession) =>
     IF /\ IsDecimal(NumPart(Stripped(inbox)), 2)
        /\ IsPositive(NumPart(Stripped(inbox)))
        /\ IsCode(CodePart(Stripped(inbox)), Upper)
     THEN /\ Handled.step = "splitEqually"
          /\ Handled.amount = Cents(NumPart(Stripped(inbox)))
          /\ Handled.currencyCode = IF CodePart(Stripped(inbox)) = <<>>
                                    THEN DefaultCurrency
                                    ELSE CodePart(Stripped(inbox))
     ELSE Rejected

\* "10 USD" was accepted as 10.00 USD
TenDollarsAccepted ==
  /\ inbox = <<"1", "0", " ", "U", "S", "D">>
  /\ out.done = "message"
  /\ Handled.step = "splitEqually"
  /\ Handled.amount = 1000
  /\ Handled.currencyCode = <<"U", "S", "D">>

\* step and context fields of a session object
Context(o) ==
  [step |-> o.step, groupId |-> o.groupId, description |-> o.description,
   amount |-> o.amount, currencyCode |-> o.currencyCode,
   hasMembers |-> o.hasMembers, selectedMembers |-> o.selectedMembers]

\* the text is a well-formed positive amount
WellFormedAmount(text) ==
  /\ IsDecimal(NumPart(Stripped(text)), 2)
  /\ IsPositive(NumPart(Stripped(text)))
  /\ IsCode(CodePart(Stripped(text)), Upper)

\* the record of chat c is still in the map, with the same step and context,
\* and the step sent a message
RePrompted(c) ==
  /\ GetIn(userSessions', c) = Get(c)
  /\ Context(heap'[GetIn(userSessions', c)]) = Context(heap[Get(c)])
  /\ out'.sent # <<>>

\* C14: an empty description, a malformed or non-positive amount, and a
\* submit with no member selected each leave the record in the map with the
\* same step and context fields, and a re-prompt is sent.
ValidationErrorKeepsRecord ==
  [][/\ \A c \in Chats, u \in Users, text \in Texts :
          (/\ TextArrives(c, u, text)
           /\ heap[Get(c)].userId = u
           /\ \/ heap[Get(c)].step = "awaiting_description" /\ Stripped(text) = <<>>
              \/ heap[Get(c)].step = "awaiting_amount" /\ ~WellFormedAmount(text))
            => RePrompted(c)
     /\ \A t \in tasks :
          (/\ CbSubmitToken(t)
           /\ Get(t.chat) = t.session
           /\ heap[t.session].hasMembers
           /\ heap[t.session].selectedMembers = <<>>)
            => RePrompted(t.chat)]_vars

\* Submit was pressed with nobody selected, and the record is still there
EmptySubmitRePrompted ==
  /\ out.sent = <<"no_members_selected">>
  /\ \E c \in Chats : /\ Get(c) # NoSession
                       /\ heap[Get(c)].hasMembers
                       /\ heap[Get(c)].selectedMembers = <<>>

\* the last step ended a flow-opening command on a missing precondition and
\* told the user
PreconditionMissing ==
  \/ out.done \in {"group", "setgroup", "expense"} /\ out.sent = <<"not_logged_in">>
  \/ out.done = "expense" /\ out.sent = <<"no_default_group">>
  \/ out.done = "login" /\ out.sent = <<"already_linked">>

\* C15 as stated: once a flow-opening command has ended on a missing
\* precondition, the conversation has no record.
NoRecordAfterRefusal ==
  PreconditionMissing => \A c \in Chats : Get(c) = NoSession

\* handler t resumes with the answer to its create_expense POST
PostAnswered(t) == (CbYesFetch(t) /\ t.arg # 0) \/ CbSubmitFetch(t)

\* handler t resumes after the deletion loop that follows the POST
PostFlushed(t) == CbYesFlush(t) \/ CbSubmitFlush(t)

\* C16: once the create_expense call was made for a session, whatever the
\* service answers, exactly one result message is sent; then every id the
\* session has recorded is passed to deleteMessage (its keyboards leave the
\* chat) and the conversation's record is removed (at once when nothing is
\* recorded, else when the deletion loop has run).
RemoteAttemptClosesSession ==
  [][\A t \in tasks :
       /\ PostAnswered(t) =>
             /\ Len(out'.sent) = 1
             /\ out'.sent[1] \in Outcomes
             /\ IF heap[t.session].messageIds = <<>>
                THEN GetIn(userSessions', t.chat) = NoSession
                ELSE \E f \in tasks' : f.chat = t.chat
                                        /\ f.pc \in {"cb_yes_flush", "cb_submit_flush"}
       /\ PostFlushed(t) =>
             /\ out'.sent = <<>>
             /\ GetIn(userSessions', t.chat) = NoSession
             /\ Get(t.chat) = t.session => out'.dropped = "removed" /\ out'.unflushed = 0
             /\ Cardinality(rendered') =
                  Cardinality({r \in rendered :
                                 ~(r.chat = t.chat
                                   /\ r.msg \in Elems(heap[t.session].messageIds))})]_vars

\* the service answered that the expense was created, and the deletion loop
\* of the session is about to run
ExpenseCreatedReported ==
  /\ out.sent = <<"expense_created">>
  /\ out.remote = "split_equally"
  /\ \E t \in tasks : t.pc = "cb_yes_flush" /\ Get(t.chat) = t.session

\* the owner presses the button of member number i on message mid
OwnerToggle(i, mid) ==
  /\ Get(1) # NoSession
  /\ heap[Get(1)].hasMembers
  /\ nEvents' = nEvents + 1
  /\ CallbackQuery(1, 1, [kb |-> "members", op |-> "toggle_member", arg |-> i], mid)

\* C17: a toggle flips the member's presence in the selection and leaves
\* every other member's as it was, so that toggling the same member again
\* gives back the set selected before the first toggle.
DoubleToggleRestores ==
  [][\A i \in 0..(Len(Members) - 1) : \A r \in rendered :
       OwnerToggle(i, r.msg) =>
         LET m == Members[i + 1]
             before == Elems(heap[Get(1)].selectedMembers)
             once == heap'[GetIn(userSessions', 1)].selectedMembers
         IN /\ Elems(once) = (before \ {m}) \cup ({m} \ before)
            /\ Elems(Toggle(once, m)) = before]_vars

\* two presses were handled and nobody is selected: the same member was
\* toggled twice
ToggledTwice ==
  /\ nEvents = 2
  /\ tasks = {}
  /\ out.done = "callback_query"
  /\ out.sent = <<>>
  /\ Get(1) # NoSession
  /\ heap[Get(1)].selectedMembers = <<>>

\* the sum of the paid shares of a payload
RECURSIVE SumPaid(_)
SumPaid(shares) ==
  IF shares = <<>> THEN 0
  ELSE shares[1].paid_share + SumPaid(SubSeq(shares, 2, Len(shares)))

\* x is q rounded to a whole number of cents, for q = a / n
IsRounded(x, a, n) == 2 * (n * x - a) <= n /\ 2 * (a - n * x) <= n

\* C19: the payload of a custom split of amount A over the n selected
\* members (n >= 1) has one entry per selected member, whose paid and owed
\* shares both are A/n rounded to the cent; when n divides A (in cents) the
\* shares add up to A.
SharesAreEven ==
  out.remote = "split_selected" =>
    \E t \in tasks :
      /\ t.pc = "cb_submit_fetch"
      /\ LET a == heap[t.session].amount
             sel == heap[t.session].selectedMembers
             n == Len(sel)
         IN /\ n >= 1
            /\ Len(out.shares) = n
            /\ \A i \in 1..n :
                  /\ out.shares[i].user_id = sel[i]
                  /\ IsRounded(out.shares[i].paid_share, a, n)
                  /\ out.shares[i].owed_share = out.shares[i].paid_share
            /\ a % n = 0 => SumPaid(out.shares) = a

\* 30.00 over three members gives 10.00 each
ThirtyOverThree ==
  /\ out.remote = "split_selected"
  /\ Len(out.shares) = 3
  /\ \A i \in 1..3 : out.shares[i].paid_share = 1000 /\ out.shares[i].owed_share = 1000

\* the owner u of the session of chat c presses the button of member number
\* i on message mid, while members are stored
ToggleBy(c, u, i, mid) ==
  /\ Get(c) # NoSession
  /\ heap[Get(c)].userId = u
  /\ heap[Get(c)].hasMembers
  /\ nEvents' = nEvents + 1
  /\ CallbackQuery(c, u, [kb |-> "members", op |-> "toggle_member", arg |-> i], mid)

\* C18: a member toggle by the owner changes the selection and nothing
\* else of the record (step, context, timeout handle, messageIds), leaves
\* the timers as they were, sends no message and records none; the
\* keyboards on display stay on the messages they are on.
ToggleChangesOnlySelection ==
  [][\A c \in Chats, u \in Users, i \in 0..(Len(Members) - 1) : \A r \in rendered :
       ToggleBy(c, u, i, r.msg) =>
         /\ GetIn(userSessions', c) # NoSession
         /\ [heap'[GetIn(userSessions', c)] EXCEPT !.selectedMembers = <<>>]
              = [heap[Get(c)] EXCEPT !.selectedMembers = <<>>]
         /\ Cardinality(timers') = Cardinality(timers)
         /\ Pending(timers, userSessions, c) => Pending(timers', userSessions', c)
         /\ out'.sent = <<>>
         /\ nextId' = nextId
         /\ rendered' = rendered]_vars

\* conversation c handles an inbound event, a timer firing or the
\* continuation of one of its handlers
Handles(c) ==
  \/ Event(c)
  \/ \E tm \in timers : tm.chat = c /\ TimerFire(tm)
  \/ \E t \in tasks : t.chat = c /\ Resumes(t)

\* the message ids conversation c holds anywhere
IdsOf(c) ==
  LET held == {p[2] : p \in {q \in userSessions : q[1] = c}}
                \cup {t.session : t \in {x \in tasks : x.chat = c}}
                \cup {tm.session : tm \in {x \in timers : x.chat = c}}
  IN UNION {Elems(heap[s].messageIds) \cup {heap[s].timeout, heap[s].loginMessageId}
              : s \in held \ {NoSession}}
       \cup {t.msg : t \in {x \in tasks : x.chat = c}}
       \cup {tm.msg : tm \in {x \in timers : x.chat = c}}
       \cup {r.msg : r \in {x \in rendered : x.chat = c}}
       \cup {d[2] : d \in {x \in deleted : x[1] = c}}

\* everything the program holds for conversation c: its record, its pending
\* deadlines, its suspended handlers with the objects they captured, its
\* keyboards, the deletions asked for and its Token row; a message id is
\* given by its position among the conversation's own ids, an object by its
\* fields
View(c) ==
  LET own == IdsOf(c) \ {0}
      mid(x) == Rank(own, x)
      obj(s) == IF s = NoSession THEN EmptyObject
                ELSE [heap[s] EXCEPT !.messageIds = [i \in 1..Len(@) |-> mid(@[i])],
                                     !.timeout = mid(@),
                                     !.loginMessageId = mid(@)]
  IN [has |-> Get(c) # NoSession,
      record |-> obj(Get(c)),
      deadlines |-> {[msg |-> mid(tm.msg), current |-> tm.session = Get(c),
                      object |-> obj(tm.session)]
                       : tm \in {x \in timers : x.chat = c}},
      handlers |-> {[t EXCEPT !.msg = mid(@), !.session = obj(@)]
                      : t \in {x \in tasks : x.chat = c}},
      keyboards |-> {[kb |-> r.kb, msg |-> mid(r.msg)]
                       : r \in {x \in rendered : x.chat = c}},
      deletions |-> {mid(d[2]) : d \in {x \in deleted : x[1] = c}},
      row |-> token[c]]

\* C20: conversations are isolated: a step in which conversation a handles
\* an event, a timer firing or a continuation leaves the record, the pending
\* deadlines, the artifacts and everything else held for any other
\* conversation b as they were (b is unchanged, or the step is not a's).
ConversationsIsolated ==
  [][\A b \in IsoChats : \A a \in IsoChats \ {b} :
       View(b)' = View(b) \/ ~Handles(a)]_vars

\* a conversation has just lost its record while the other one holds a
\* record with recorded artifacts and a pending deadline
RemovedBesideLiveRecord ==
  /\ out.dropped = "removed"
  /\ \E b \in IsoChats :
       /\ Get(b) # NoSession
       /\ heap[Get(b)].messageIds # <<>>
       /\ Pending(timers, userSessions, b)
       /\ \E a \in IsoChats \ {b} : Get(a) = NoSession

\* C21: a flush attempts every recorded artifact in recorded order, and a
\* failed deletion stops neither the remaining attempts nor the removal of
\* the record: whenever the await of deletion number i settles, fulfilled or
\* rejected, the only new attempt is the one on the artifact recorded next,
\* the record staying in the map meanwhile, and past the last one the record
\* is removed with every recorded artifact attempted.
FlushAttemptsAllInOrder ==
  [][\A t \in tasks :
       DeleteNext(t) =>
         LET ids == heap[t.session].messageIds
             c == t.chat
         IN IF t.arg < Len(ids)
            THEN /\ deleted' \ deleted \subseteq {<<c, ids[t.arg + 1]>>}
                 /\ <<c, ids[t.arg + 1]>> \in deleted'
                 /\ \E t2 \in tasks' : t2.pc = "delete_loop" /\ t2.arg = t.arg + 1
                 /\ GetIn(userSessions', c) # NoSession
            ELSE /\ GetIn(userSessions', c) = NoSession
                 /\ out'.dropped = "removed"
                 /\ out'.unflushed = 0
                 /\ \A t2 \in tasks' : t2.pc # "delete_loop"]_vars

\* the loop has removed the record although a deletion failed: the keyboard
\* of a recorded message is still on display
RemovedAfterFailedDeletion ==
  /\ out.dropped = "removed"
  /\ out.unflushed = 0
  /\ out.done = "cleanUpSession"
  /\ rendered # {}

\* C22: every record in the map has an owner, set when the record was
\* created, and the owner of a record does not change while the record is
\* in the map.
RecordOwnerSetAndFixed ==
  [][\A c \in Chats :
       LET s2 == GetIn(userSessions', c) IN
       s2 # NoSession =>
         /\ heap'[s2].userId # 0
         /\ (Get(c) # NoSession /\ out'.dropped = "none")
              => heap'[s2].userId = heap[Get(c)].userId]_vars

\* C23: the step of a record in the map only advances awaiting_description
\* -> awaiting_amount -> split choice: a record at awaiting_amount has a
\* non-empty description, a record at the split choice also a positive
\* amount and a currency, and a step that changes the step of a record that
\* stays in the map takes it from awaiting_description to awaiting_amount
\* or from awaiting_amount to the split choice.
StepOnlyAdvances ==
  [][\A c \in Chats :
       LET s == Get(c)
           s2 == GetIn(userSessions', c)
       IN s2 # NoSession =>
            /\ heap'[s2].step \in {"awaiting_amount", "splitEqually"}
                 => heap'[s2].description # <<>>
            /\ heap'[s2].step = "splitEqually"
                 => heap'[s2].amount > 0 /\ heap'[s2].currencyCode # <<>>
            /\ (s # NoSession /\ out'.dropped = "none"
                   /\ heap'[s2].step # heap[s].step)
                 => \/ /\ heap[s].step = "awaiting_description"
                        /\ heap'[s2].step = "awaiting_amount"
                     \/ /\ heap[s].step = "awaiting_amount"
                        /\ heap'[s2].step = "splitEqually"]_vars

\* a record has gone through both text steps and is at the split choice
AtSplitChoice ==
  \E c \in Chats :
    /\ Get(c) # NoSession
    /\ heap[Get(c)].step = "splitEqually"
    /\ heap[Get(c)].description # <<>>
    /\ heap[Get(c)].amount > 0
    /\ out.sent = <<"split_equally">>

\* C24: a record that is removed from the map or replaced has its pending
\* deadline cancelled: every pending timer belongs to the record that is
\* the map's entry of its conversation.
NoTimerWithoutItsRecord ==
  \A tm \in timers :
    /\ tm.session # NoSession
    /\ GetIn(userSessions, tm.chat) = tm.session

\* the records /group creates: { userId, messageIds }
IsGroupRecord(o) == o.step = "undefined" /\ ~o.hasGroups /\ o.loginMessageId = 0

\* the records /setgroup creates: { userId, groups, messageIds }
IsSetgroupRecord(o) == o.step = "undefined" /\ o.hasGroups

\* C25: a handler mutates only the record of its own event: when the /group
\* or the /setgroup handler resumes after sending its list, the record it
\* records the list on (and arms the deadline on) is a record of the kind
\* it created, never a record another event has put in the map in the
\* meantime; and when a command handler resumes and stores its record, it
\* does not replace a record that still has a pending deadline or
\* undeleted artifacts.
HandlerKeepsToOwnRecord ==
  [][\A t \in tasks :
       LET s == Get(t.chat) IN
       /\ (t.pc = "group_sent" /\ GroupSent(t) /\ s # NoSession)
            => IsGroupRecord(heap[s])
       /\ (t.pc = "setgroup_sent" /\ SetgroupSent(t) /\ s # NoSession)
            => IsSetgroupRecord(heap[s])
       /\ (/\ t.pc \in {"group_fetch", "setgroup_fetch", "expense_token", "login_then"}
           /\ GroupFetch(t) \/ SetgroupFetch(t) \/ ExpenseToken(t) \/ LoginThen(t)
           /\ out'.dropped = "replaced")
            => out'.unflushed = 0 /\ ~out'.armed]_vars

\* the failure reports of the remote calls of a press: the group-detail
\* fetch, the member fetch and the save of the default group
RemoteFailures == {<<"group_details_failed">>, <<"members_failed">>, <<"set_default_failed">>}

\* C26: when a remote call made while handling the owner's button press
\* fails, the session is torn down: once the handler has finished with the
\* failure report, the conversation has no record.
RemoteFailureTearsDown ==
  (out.done = "callback_query" /\ out.sent \in RemoteFailures)
    => \A c \in Chats : Get(c) = NoSession

\* the prompts, interactive controls and re-prompts of a session, and for
\* each the continuation that records its id once the send has returned
\* ("" when the code attaches none)
RecorderOf(m) ==
  CASE m = "ask_description" -> "prompt_then"
    [] m = "ask_amount" -> "ask_amount_then"
    [] m = "split_equally" -> "ask_split_then"
    [] m = "select_members" -> "members_then"
    [] m = "group_list" -> "group_sent"
    [] m = "group_detail" -> "cb_group_sent"
    [] m = "setgroup_list" -> "setgroup_sent"
    [] m \in {"invalid_description", "invalid_amount", "non_positive_amount",
              "no_members_selected"} -> ""
    [] OTHER -> "none"

\* C27: every prompt, re-prompt or interactive control sent for an open
\* session is recorded in the session's artifacts: when a step has sent one
\* and the conversation has a record, the continuation that records the
\* message's id is pending.
SentForSessionIsRecorded ==
  (/\ Len(out.sent) = 1
   /\ RecorderOf(out.sent[1]) # "none"
   /\ \E c \in Chats : Get(c) # NoSession)
    => \E t \in tasks : t.pc = RecorderOf(out.sent[1]) /\ t.msg # 0

\* the handler t resumes and issues the create_expense POST
Posts(t) ==
  /\ \/ t.pc = "cb_yes_fetch" /\ CbYesFetch(t)
     \/ t.pc = "cb_submit_token" /\ CbSubmitToken(t)
  /\ out'.remote # ""

\* C28: the create_expense POST is issued at most once for one record, also
\* when the owner presses the button again while an earlier press is
\* suspended: in particular no handler issues the POST for a record right
\* after another handler, still suspended past its own POST, has issued it
\* for the same record.
PostedOncePerRecord ==
  [][\A t \in tasks :
       Posts(t) =>
         ~(/\ out.remote # ""
           /\ \E t1 \in tasks \ {t} :
                /\ t1.session = t.session
                /\ t1.pc \in {"cb_yes_flush", "cb_submit_fetch"})]_vars

\* the handlers of T that a press has sent towards the create_expense POST
Submitting(T) == {t \in T : t.pc \in {"cb_yes_fetch", "cb_submit_token"}}

\* the buttons that lead to the POST
SubmitPayloads == {d \in Payloads : d.op \in {"splitEquallyYes", "submit_selected_members"}}

\* C29: the create_expense POST is issued only while handling a button
\* press whose actor is the owner of the record whose context is submitted:
\* a press sets a handler on the way to the POST only if the conversation
\* has a record owned by the presser, the handler then holding that record
\* and the amount read from it, and the POST is issued only by such a
\* handler, for the record it holds.
OnlyOwnerPressPosts ==
  [][/\ Cardinality(Submitting(tasks')) > Cardinality(Submitting(tasks))
        => \A c \in Chats, u \in Users, d \in SubmitPayloads : \A r \in rendered :
             (nEvents' = nEvents + 1 /\ CallbackQuery(c, u, d, r.msg))
               => /\ Get(c) # NoSession
                  /\ heap[Get(c)].userId = u
                  /\ \E t \in Submitting(tasks') :
                       /\ t.chat = c
                       /\ t.session # NoSession
                       /\ heap'[t.session].userId = u
                       /\ Content(heap'[t.session]) = Content(heap[Get(c)])
                       /\ t.arg = heap[Get(c)].amount
     /\ out'.remote # ""
        => \E t \in Submitting(tasks) :
             /\ Posts(t)
             /\ t.session # NoSession
             /\ heap[t.session].userId \in Users]_vars

\* the POST has just been issued by a handler that holds a record of user 1
\* with its amount
PostedByOwner ==
  /\ out.remote # ""
  /\ \E t \in tasks :
       /\ t.pc \in {"cb_yes_flush", "cb_submit_fetch"}
       /\ heap[t.session].userId = 1
       /\ heap[t.session].amount > 0

\* C30: the create_expense POST is issued only with a context whose
\* description (non-empty), amount (positive) and currency were set by the
\* text steps of the same session, and on the custom-split path only with a
\* non-empty selection: a handler that issues the POST holds a record that
\* has reached the split choice with all three fields and posts the amount
\* of that record, with a non-empty users payload on the custom path.
PostHasFullContext ==
  [][\A t \in tasks :
       Posts(t) =>
         LET o == heap[t.session] IN
         /\ o.step = "splitEqually"
         /\ o.description # <<>>
         /\ o.amount > 0
         /\ t.arg = o.amount
         /\ o.currencyCode # <<>>
         /\ t.pc = "cb_submit_token"
              => /\ o.hasMembers
                 /\ o.selectedMembers # <<>>
                 /\ out'.shares # <<>>]_vars

\* the POST of a custom split has just been issued with its payload
CustomSplitPosted ==
  /\ out.remote = "split_selected"
  /\ out.shares # <<>>
  /\ \E t \in tasks :
       /\ t.pc = "cb_submit_fetch"
       /\ heap[t.session].description # <<>>
       /\ heap[t.session].amount > 0

====
